---------------------------- MODULE Spec2Model ----------------------------
(***************************************************************************)
(* Model of the generate_password task of tasks.py: the inner rejection    *)
(* sampler _generate_password and the three environment files the task     *)
(* writes under PROJECT_ROOT/.docker.                                      *)
(*                                                                         *)
(* Strings are sequences of ASCII codes, so that formatting a line         *)
(* (KEY=value\n), parsing it back and overwriting bytes of a file are      *)
(* computed rather than assumed.  The names string, secrets, PROJECT_ROOT  *)
(* and _logger, which the task uses, are read as the standard library      *)
(* modules, the project's root path and a logging.Logger.                  *)
(***************************************************************************)
EXTENDS Integers, Sequences, FiniteSets, TLC

(***************************************************************************)
(* Bounds of the model.                                                    *)
(***************************************************************************)
\* Largest length argument explored; lengths are 0..MaxLen.
MaxLen == 5
\* Largest length argument for which the sampler is explored over every
\* candidate string.
MaxSampleLen == 4
\* Number of acceptable candidates per length, and of unacceptable ones,
\* that the random source offers to a provisioning run (the sampler on its
\* own is explored over every candidate string, see Candidates).
PoolSize == 2

Lengths == 0..MaxLen

\* The invocations of the task: two processes of the task runner.
Runs == {"r1", "r2"}

(***************************************************************************)
(* string.ascii_lowercase, ascii_uppercase, digits, punctuation, as sets   *)
(* of ASCII codes, and the alphabet of line 101.                           *)
(***************************************************************************)
AsciiLowercase == 97..122
AsciiUppercase == 65..90
Digits == 48..57
Punctuation == (33..47) \cup (58..64) \cup (91..96) \cup (123..126)
Alphabet == AsciiLowercase \cup AsciiUppercase \cup Digits \cup Punctuation

\* c.islower(), c.isupper(), c.isdigit() and `c in string.punctuation`
\* for a one-character string c.
IsLower(c) == c \in AsciiLowercase
IsUpper(c) == c \in AsciiUppercase
IsDigit(c) == c \in Digits
IsPunct(c) == c \in Punctuation

\* A plausible slip of the acceptance test: the punctuation clause dropped.
AcceptNoPunct(password) ==
    /\ (\E i \in 1..Len(password) : IsLower(password[i]))
    /\ (\E i \in 1..Len(password) : IsUpper(password[i]))
    /\ (\E i \in 1..Len(password) : IsDigit(password[i]))

\* The acceptance test of lines 105-110.
Accept(password) ==
    /\ (\E i \in 1..Len(password) : IsLower(password[i]))
    /\ (\E i \in 1..Len(password) : IsUpper(password[i]))
    /\ (\E i \in 1..Len(password) : IsDigit(password[i]))
    /\ (\E i \in 1..Len(password) : IsPunct(password[i]))

(***************************************************************************)
(* The random source.  secrets.choice(alphabet) returns any character of   *)
(* the alphabet; the model draws from the characters a A 0 = of it.        *)
(***************************************************************************)
Drawable == Alphabet \cap {97, 65, 48, 61}

\* Every string "".join(secrets.choice(alphabet) for _ in range(length))
\* can be, over the drawable characters.
Candidates(len) == [1..len -> Drawable]

\* A sample of those strings for the provisioning runs, PoolSize of each
\* kind: the cyclic strings aA0=aA0=..., A0=aA0=a..., (acceptable from
\* length 4 on) and the cyclic strings over three of the four characters,
\* aA0aA0..., aA=aA=..., (never acceptable: one class is missing).
Base == <<97, 65, 48, 61>>
Cyc(k, len) == [i \in 1..len |-> Base[((i + k - 1) % Len(Base)) + 1]]
Without(j) == SelectSeq(Base, LAMBDA c : c # Base[j])
Miss(j, len) == [i \in 1..len |-> Without(j)[((i - 1) % Len(Without(j))) + 1]]
Pool(len) ==
    {Cyc(k, len) : k \in 0..(PoolSize - 1)}
        \cup {Miss(Len(Base) - (k % Len(Base)), len) : k \in 0..(PoolSize - 1)}

(***************************************************************************)
(* The environment files: names, keys and the line f"{KEY}={value}\n".     *)
(***************************************************************************)
FileOrder == <<"odoo.env", "db-creation.env", "db-access.env">>
EnvFiles == {FileOrder[i] : i \in 1..Len(FileOrder)}

\* "ADMIN_PASSWORD", "POSTGRES_PASSWORD", "PGPASSWORD"
PASSWORD == <<80, 65, 83, 83, 87, 79, 82, 68>>
KeyAdmin == <<65, 68, 77, 73, 78, 95>> \o PASSWORD
KeyPostgres == <<80, 79, 83, 84, 71, 82, 69, 83, 95>> \o PASSWORD
KeyPg == <<80, 71>> \o PASSWORD
Keys == <<KeyAdmin, KeyPostgres, KeyPg>>

Eq == <<61>>
Nl == <<10>>
Line(key, value) == key \o Eq \o value \o Nl

\* str(n) for n >= 0, as the f-string of line 132 formats the length.
RECURSIVE Str(_)
Str(n) == IF n < 10 THEN <<48 + n>> ELSE Str(n \div 10) \o <<48 + (n % 10)>>

\* Reading a file back: the text before the first "=" and the text between
\* it and the first newline after it.
RECURSIVE Find(_, _, _)
Find(s, ch, from) ==
    IF from > Len(s) THEN 0
    ELSE IF s[from] = ch THEN from
    ELSE Find(s, ch, from + 1)
KeyOf(content) ==
    LET e == Find(content, Eq[1], 1)
    IN  IF e = 0 THEN <<>> ELSE SubSeq(content, 1, e - 1)
ValueOf(content) ==
    LET e == Find(content, Eq[1], 1)
        n == Find(content, Nl[1], e + 1)
    IN  IF e = 0 \/ n = 0 THEN <<>> ELSE SubSeq(content, e + 1, n - 1)
Count(s, ch) == Cardinality({i \in 1..Len(s) : s[i] = ch})
IsPrefix(p, s) == Len(p) <= Len(s) /\ SubSeq(s, 1, Len(p)) = p
Contains(s, t) ==
    \E i \in 0..(Len(s) - Len(t)) : SubSeq(s, i + 1, i + Len(t)) = t

(***************************************************************************)
(* open(path, mode) and f.write(data) on the bytes of a file.              *)
(***************************************************************************)
\* A plausible slip: the files opened for appending.
OpenModeAppend == "a"

\* The mode of the three open() calls (lines 120, 124, 128).
OpenMode == "w"

\* The bytes of the file once open() returns: "w" truncates.
Opened(mode, old) == IF mode = "w" THEN <<>> ELSE old

\* The bytes of the file once data is written through a handle that was
\* opened at offset 0 ("a" writes at the end instead).
Written(mode, content, data) ==
    IF mode = "a" THEN content \o data
    ELSE IF Len(content) > Len(data)
         THEN data \o SubSeq(content, Len(data) + 1, Len(content))
         ELSE data

(***************************************************************************)
(* State.                                                                  *)
(***************************************************************************)
VARIABLES
    parent,             \* PROJECT_ROOT exists
    dir,                \* PROJECT_ROOT/.docker: "missing", "dir" or "file"
    files,              \* the files of .docker: name -> bytes
    lastWriter,         \* name -> the run whose f.write reached the file last
    pc,                 \* each run's position in the task
    length,             \* each run's length argument
    password,           \* the candidate of the sampler's current iteration
    admin_password,     \* line 116
    postgres_password,  \* line 117
    target,             \* index in FileOrder of the file being written
    wrote,              \* the files each run has opened for writing, in order
    made,               \* whether the run's mkdir created the directory
    fault,              \* the filesystem error the run met, if any
    error,              \* the exception the task ended with, if any
    log,                \* each run's log records
    invoked             \* the runs in the order they were started

vars == <<parent, dir, files, lastWriter, pc, length, password,
          admin_password, postgres_password, target, wrote, made, fault,
          error, log, invoked>>

fsVars == <<parent, dir, files, lastWriter>>
genVars == <<password, admin_password, postgres_password>>

NoFault == [op |-> "none", err |-> "none"]
\* The errors of the operating system that the calls can meet: permission
\* denied on mkdir and open, disk full on write.
EnvFault(op) == IF op = "write" THEN "OSError(ENOSPC)" ELSE "PermissionError"
EnvFaults == {EnvFault(op) : op \in {"mkdir", "open", "write"}}

\* A stale file: an older, longer POSTGRES_PASSWORD line and a comment.
Stale == Line(KeyPostgres, Cyc(0, MaxLen + 2)) \o <<35>> \o Nl
NoFiles == [n \in {} |-> <<>>]
InitialListings ==
    { NoFiles,
      [n \in EnvFiles |-> Stale],
      [n \in {"odoo.env", "other.env"} |-> Stale] }

Init ==
    /\ parent \in BOOLEAN
    /\ dir \in {"missing", "dir", "file"}
    /\ parent = FALSE => dir = "missing"
    /\ files \in InitialListings
    /\ dir # "dir" => files = NoFiles
    /\ lastWriter = [n \in EnvFiles |-> "none"]
    /\ pc = [r \in Runs |-> "idle"]
    /\ length = [r \in Runs |-> 0]
    /\ password = [r \in Runs |-> <<>>]
    /\ admin_password = [r \in Runs |-> <<>>]
    /\ postgres_password = [r \in Runs |-> <<>>]
    /\ target = [r \in Runs |-> 1]
    /\ wrote = [r \in Runs |-> <<>>]
    /\ made = [r \in Runs |-> FALSE]
    /\ fault = [r \in Runs |-> NoFault]
    /\ error = [r \in Runs |-> "none"]
    /\ log = [r \in Runs |-> <<>>]
    /\ invoked = <<>>

(***************************************************************************)
(* The task, one action per step of generate_password.                     *)
(***************************************************************************)
\* `invoke generate-password --length len` starts run r.
Invoke(r, len) ==
    /\ pc[r] = "idle"
    /\ pc' = [pc EXCEPT ![r] = "mkdir"]
    /\ length' = [length EXCEPT ![r] = len]
    /\ invoked' = Append(invoked, r)
    /\ UNCHANGED <<fsVars, genVars, target, wrote, made, fault, error, log>>

\* The statement that follows the one that met error `op`, for a task that
\* would catch the error and carry on.
After(r, op) ==
    CASE op = "mkdir" -> "draw_admin"
      [] op = "open" -> "write"
      [] OTHER -> IF target[r] < Len(FileOrder) THEN "open" ELSE "log"

\* A plausible slip: the error is caught and the task carries on.
Swallow(r, op, e) ==
    /\ pc' = [pc EXCEPT ![r] = After(r, op)]
    /\ fault' = [fault EXCEPT ![r] = [op |-> op, err |-> e]]
    /\ UNCHANGED error

\* No statement of the task catches an exception: error e of filesystem
\* call `op` ends the task and reaches the caller.
Propagate(r, op, e) ==
    /\ pc' = [pc EXCEPT ![r] = "raised"]
    /\ fault' = [fault EXCEPT ![r] = [op |-> op, err |-> e]]
    /\ error' = [error EXCEPT ![r] = e]

\* A plausible slip: mkdir() without exist_ok.
ExistOkFalse == FALSE

\* The arguments of output_dir.mkdir(exist_ok=True): parents is left at
\* pathlib's default.
ExistOk == TRUE
Parents == FALSE

\* Path.mkdir(parents, exist_ok) on PROJECT_ROOT/.docker.
Mkdir(r) ==
    /\ pc[r] = "mkdir"
    /\ UNCHANGED <<files, lastWriter, length, genVars, target, wrote, log, invoked>>
    /\ IF ~parent /\ ~Parents
         THEN /\ Propagate(r, "mkdir", "FileNotFoundError")
              /\ UNCHANGED <<parent, dir, made>>
       ELSE IF dir = "file" \/ (dir = "dir" /\ ~ExistOk)
         THEN /\ Propagate(r, "mkdir", "FileExistsError")
              /\ UNCHANGED <<parent, dir, made>>
       ELSE /\ parent' = TRUE
            /\ dir' = "dir"
            /\ made' = [made EXCEPT ![r] = (dir = "missing")]
            /\ pc' = [pc EXCEPT ![r] = "draw_admin"]
            /\ UNCHANGED <<fault, error>>

\* mkdir meets an error of the operating system.
MkdirFails(r) ==
    /\ pc[r] = "mkdir"
    /\ Propagate(r, "mkdir", EnvFault("mkdir"))
    /\ UNCHANGED <<fsVars, length, genVars, target, wrote, made, log, invoked>>

\* Line 103: one whole candidate of `length` characters, out of S.
Draw(r, S) ==
    /\ pc[r] \in {"draw_admin", "draw_pg"}
    /\ \E c \in S : password' = [password EXCEPT ![r] = c]
    /\ pc' = [pc EXCEPT ![r] = IF pc[r] = "draw_admin" THEN "test_admin" ELSE "test_pg"]
    /\ UNCHANGED <<fsVars, length, admin_password, postgres_password, target,
                   wrote, made, fault, error, log, invoked>>

\* Lines 105-111: return the candidate if it passes, else loop.
Test(r) ==
    /\ pc[r] \in {"test_admin", "test_pg"}
    /\ UNCHANGED <<fsVars, length, target, wrote, made, fault, error, log, invoked>>
    /\ IF Accept(password[r])
         THEN /\ IF pc[r] = "test_admin"
                   THEN /\ admin_password' = [admin_password EXCEPT ![r] = password[r]]
                        /\ UNCHANGED postgres_password
                   ELSE /\ postgres_password' = [postgres_password EXCEPT ![r] = password[r]]
                        /\ UNCHANGED admin_password
              /\ pc' = [pc EXCEPT ![r] = IF pc[r] = "test_admin" THEN "draw_pg" ELSE "open"]
              /\ password' = [password EXCEPT ![r] = <<>>]
         ELSE /\ pc' = [pc EXCEPT ![r] = IF pc[r] = "test_admin" THEN "draw_admin" ELSE "draw_pg"]
              /\ UNCHANGED <<password, admin_password, postgres_password>>

\* A plausible slip: db-access.env written from the wrong variable.
LineForWrongVar(r, i) ==
    Line(Keys[i], IF i = 2 THEN postgres_password[r] ELSE admin_password[r])

\* The line written to the i-th file (lines 121, 125, 129).
LineFor(r, i) ==
    Line(Keys[i], IF i = 1 THEN admin_password[r] ELSE postgres_password[r])

Old(name) == IF name \in DOMAIN files THEN files[name] ELSE <<>>
Put(name, bytes) ==
    [n \in DOMAIN files \cup {name} |-> IF n = name THEN bytes ELSE files[n]]

\* open(output_dir / name, "w") of lines 120, 124, 128.
OpenFile(r) ==
    /\ pc[r] = "open"
    /\ UNCHANGED <<parent, dir, lastWriter, length, genVars, target, made, log, invoked>>
    /\ IF dir # "dir"
         THEN /\ Propagate(r, "open", "FileNotFoundError")
              /\ UNCHANGED <<files, wrote>>
         ELSE /\ files' = Put(FileOrder[target[r]], Opened(OpenMode, Old(FileOrder[target[r]])))
              /\ wrote' = [wrote EXCEPT ![r] = Append(@, FileOrder[target[r]])]
              /\ pc' = [pc EXCEPT ![r] = "write"]
              /\ UNCHANGED <<fault, error>>

\* open meets an error of the operating system: the file is not touched.
OpenFails(r) ==
    /\ pc[r] = "open"
    /\ Propagate(r, "open", EnvFault("open"))
    /\ UNCHANGED <<fsVars, length, genVars, target, wrote, made, log, invoked>>

\* f.write(line) and the close of the with block (lines 121, 125, 129).
WriteFile(r) ==
    /\ pc[r] = "write"
    /\ files' = Put(FileOrder[target[r]],
                    Written(OpenMode, Old(FileOrder[target[r]]), LineFor(r, target[r])))
    /\ lastWriter' = [lastWriter EXCEPT ![FileOrder[target[r]]] = r]
    /\ IF target[r] < Len(FileOrder)
         THEN /\ target' = [target EXCEPT ![r] = @ + 1]
              /\ pc' = [pc EXCEPT ![r] = "open"]
         ELSE /\ pc' = [pc EXCEPT ![r] = "log"]
              /\ UNCHANGED target
    /\ UNCHANGED <<parent, dir, length, genVars, wrote, made, fault, error, log, invoked>>

\* The write meets an error of the operating system after none or half of
\* the line reached the file.
WriteFails(r) ==
    /\ pc[r] = "write"
    /\ Propagate(r, "write", EnvFault("write"))
    /\ \E k \in {0, Len(LineFor(r, target[r])) \div 2} :
          files' = Put(FileOrder[target[r]],
                       Written(OpenMode, Old(FileOrder[target[r]]),
                               SubSeq(LineFor(r, target[r]), 1, k)))
    /\ UNCHANGED <<parent, dir, lastWriter, length, genVars, target, wrote, made,
                   log, invoked>>

\* A plausible slip: the password logged instead of the length.
LogLinesLeak(r) ==
    << [text |-> "Passwords and env files generated in .docker/", arg |-> <<>>],
       [text |-> "Generated passwords with length: ", arg |-> postgres_password[r]] >>

\* The two records of lines 131-132.
LogLines(r) ==
    << [text |-> "Passwords and env files generated in .docker/", arg |-> <<>>],
       [text |-> "Generated passwords with length: ", arg |-> Str(length[r])] >>

Log(r) ==
    /\ pc[r] = "log"
    /\ log' = [log EXCEPT ![r] = LogLines(r)]
    /\ pc' = [pc EXCEPT ![r] = "done"]
    /\ UNCHANGED <<fsVars, length, genVars, target, wrote, made, fault, error, invoked>>

(***************************************************************************)
(* Specifications.                                                         *)
(***************************************************************************)
\* Sequential use: a run starts when no other run is under way.
Quiet(r) == \A q \in Runs \ {r} : pc[q] \in {"idle", "done", "raised"}
Start(r) == Quiet(r) /\ \E len \in Lengths : Invoke(r, len)
Generate(r) == Draw(r, Pool(length[r]))

Next ==
    \E r \in Runs :
        \/ Start(r)
        \/ Mkdir(r)
        \/ MkdirFails(r)
        \/ Generate(r)
        \/ Test(r)
        \/ OpenFile(r)
        \/ OpenFails(r)
        \/ WriteFile(r)
        \/ WriteFails(r)
        \/ Log(r)

Spec == Init /\ [][Next]_vars

\* The sampler alone, over every candidate string: one run, up to the
\* return of its first call.
InitGen == Init /\ parent /\ dir = "dir" /\ files = NoFiles
Call(r) == \E len \in 0..MaxSampleLen : Invoke(r, len)
Sample(r) == pc[r] = "draw_admin" /\ Draw(r, Candidates(length[r]))
SampleOf(r, c) == pc[r] = "draw_admin" /\ Draw(r, {c})

NextGen == Call("r1") \/ Mkdir("r1") \/ Sample("r1") \/ Test("r1")

SpecGen == InitGen /\ [][NextGen]_vars

\* A fair random source draws every string again and again, the string
\* aA0=aA0=... of each length among them; the interpreter always runs the
\* statement that follows.
SpecGenFair ==
    /\ SpecGen
    /\ WF_vars(Mkdir("r1"))
    /\ WF_vars(Test("r1"))
    /\ SF_vars(SampleOf("r1", Cyc(0, length["r1"])))

\* Two runs at once, on a filesystem that returns no error.
Launch(r) == \E len \in Lengths : Invoke(r, len)
NextConc ==
    \E r \in Runs :
        \/ Launch(r)
        \/ Mkdir(r)
        \/ Generate(r)
        \/ Test(r)
        \/ OpenFile(r)
        \/ WriteFile(r)
        \/ Log(r)

InitConc == Init /\ parent /\ files # NoFiles
SpecConc == InitConc /\ [][NextConc]_vars

(***************************************************************************)
(* Properties.                                                             *)
(***************************************************************************)
\* The four classes, stated on the codes themselves.
HasAllClasses(p) ==
    /\ \E i \in 1..Len(p) : p[i] >= 97 /\ p[i] <= 122
    /\ \E i \in 1..Len(p) : p[i] >= 65 /\ p[i] <= 90
    /\ \E i \in 1..Len(p) : p[i] >= 48 /\ p[i] <= 57
    /\ \E i \in 1..Len(p) :
          p[i] \in {33, 34, 35, 36, 37, 38, 39, 40, 41, 42, 43, 44, 45, 46, 47,
                    58, 59, 60, 61, 62, 63, 64, 91, 92, 93, 94, 95, 96,
                    123, 124, 125, 126}
InAlphabet(p) == \A i \in 1..Len(p) : p[i] >= 33 /\ p[i] <= 126
WellFormed(p, len) == Len(p) = len /\ InAlphabet(p) /\ HasAllClasses(p)

\* The run's first call of the sampler has returned.
AdminReturned(r) ==
    \/ pc[r] \in {"draw_pg", "test_pg", "open", "write", "log", "done"}
    \/ pc[r] = "raised" /\ fault[r].op # "mkdir"
\* The run's second call of the sampler has returned.
PostgresReturned(r) ==
    \/ pc[r] \in {"open", "write", "log", "done"}
    \/ pc[r] = "raised" /\ fault[r].op # "mkdir"

\* C1: for every length >= 4, whenever _generate_password(length) returns,
\* the string it returns has exactly `length` characters, all of the
\* alphabet, with at least one lowercase letter, one uppercase letter, one
\* digit and one punctuation character.
C1_ReturnedPasswordWellFormed ==
    \A r \in Runs :
        length[r] >= 4 =>
            /\ AdminReturned(r) => WellFormed(admin_password[r], length[r])
            /\ PostgresReturned(r) => WellFormed(postgres_password[r], length[r])

\* A call with a length of at least 4 has returned.
C1_Witness ==
    \E r \in Runs : length[r] >= 4 /\ AdminReturned(r)

\* C2: for every length in 0..3 the task fails fast with a validation
\* error: it never draws a candidate, and once past mkdir it has ended with
\* an error.
C2_ShortLengthFailsFast ==
    \A r \in Runs :
        (pc[r] # "idle" /\ length[r] < 4) => pc[r] \in {"mkdir", "raised"}

\* C9, one step of whole-candidate rejection sampling.  Every draw is a complete
\* candidate of `length` characters; a candidate that misses a class is
\* discarded (the call does not return it and draws again); a candidate with
\* all four classes is returned as it was drawn; and for every length >= 4
\* the call returns under a fair random source.
C9_Step(r) ==
    /\ (pc[r] = "draw_admin" /\ pc'[r] # pc[r]) =>
          /\ pc'[r] = "test_admin"
          /\ Len(password'[r]) = length[r]
          /\ InAlphabet(password'[r])
    /\ (pc[r] = "test_admin" /\ pc'[r] # pc[r] /\ ~HasAllClasses(password[r])) =>
          /\ pc'[r] = "draw_admin"
          /\ admin_password'[r] = admin_password[r]
    /\ (pc[r] = "test_admin" /\ pc'[r] # pc[r] /\ HasAllClasses(password[r])) =>
          /\ pc'[r] = "draw_pg"
          /\ admin_password'[r] = password[r]
\* C9: every step of the loop is such a step, and a call with a length of
\* at least 4 that has reached the loop returns.
C9_RejectionSampling ==
    /\ [][\A r \in Runs : C9_Step(r)]_vars
    /\ \A r \in Runs :
          (pc[r] = "draw_admin" /\ length[r] >= 4) ~> (pc[r] = "draw_pg")

\* A candidate of length >= 4 has been rejected and the loop is about to
\* draw again.
C9_Witness ==
    \E r \in Runs :
        /\ pc[r] = "draw_admin"
        /\ length[r] >= 4
        /\ Len(password[r]) = length[r]
        /\ ~HasAllClasses(password[r])

\* Run r is the most recent invocation.
Latest(r) == invoked # <<>> /\ invoked[Len(invoked)] = r
\* The password the i-th file is to hold.
ValueFor(r, i) == IF i = 1 THEN admin_password[r] ELSE postgres_password[r]
\* The number of files run r has written in full.
WrittenInFull(r) ==
    IF pc[r] = "write" \/ (pc[r] = "raised" /\ fault[r].op = "write")
    THEN Len(wrote[r]) - 1
    ELSE Len(wrote[r])

\* C3: after a run completes, .docker holds odoo.env, db-creation.env and
\* db-access.env with the keys ADMIN_PASSWORD, POSTGRES_PASSWORD and
\* PGPASSWORD; the value of POSTGRES_PASSWORD is the value of PGPASSWORD, the
\* one database password of the run; the run has written these three files
\* and no other, and the other files of the directory are as they were.
C3_ThreeFilesSharedDbPassword ==
    \A r \in Runs :
        (pc[r] = "done" /\ Latest(r)) =>
            /\ EnvFiles \subseteq DOMAIN files
            /\ KeyOf(files["odoo.env"]) = KeyAdmin
            /\ KeyOf(files["db-creation.env"]) = KeyPostgres
            /\ KeyOf(files["db-access.env"]) = KeyPg
            /\ ValueOf(files["odoo.env"]) = admin_password[r]
            /\ ValueOf(files["db-creation.env"]) = postgres_password[r]
            /\ ValueOf(files["db-access.env"]) = ValueOf(files["db-creation.env"])
            /\ wrote[r] = FileOrder
            /\ \A n \in DOMAIN files \ EnvFiles : files[n] = Stale

\* A run has completed whose admin and database passwords differ.
C3_Witness ==
    \E r \in Runs :
        /\ pc[r] = "done"
        /\ Latest(r)
        /\ admin_password[r] # postgres_password[r]

\* C4: after any sequence of sequential runs that ends with a completed
\* run, each of the three files holds exactly the one line KEY=value\n of
\* that most recent run, whatever it held before; and once a run has
\* completed, later runs leave the set of files of the directory as it is.
C4_LatestRunHoldsEachFile ==
    \A r \in Runs :
        (pc[r] = "done" /\ Latest(r)) =>
            \A i \in 1..Len(FileOrder) :
                /\ files[FileOrder[i]] = Keys[i] \o <<61>> \o ValueFor(r, i) \o <<10>>
                /\ Count(files[FileOrder[i]], 10) = 1
\* C4: the contents after the latest completed run, in every state, and
\* the set of files unchanged by every step that follows a completed run.
C4_Overwrite ==
    /\ []C4_LatestRunHoldsEachFile
    /\ [][(\E r \in Runs : pc[r] = "done") => DOMAIN files' = DOMAIN files]_vars

\* Two runs have completed one after the other with different passwords.
C4_Witness ==
    /\ Len(invoked) = 2
    /\ \A r \in Runs : pc[r] = "done"
    /\ admin_password[invoked[1]] # admin_password[invoked[2]]
    /\ postgres_password[invoked[1]] # postgres_password[invoked[2]]

\* C5 as claimed: unless the operating system refuses mkdir or the path is
\* taken by a file, a run that is past mkdir has the directory, missing
\* parents included.
C5_CreatesMissingParents ==
    \A r \in Runs :
        ( /\ pc[r] \notin {"idle", "mkdir"}
          /\ ~(fault[r].op = "mkdir"
               /\ fault[r].err \in EnvFaults \cup {"FileExistsError"}) )
        => dir = "dir"

\* C5 as amended: a run that is past mkdir without an error has the
\* directory, and so has every run that has opened a file; mkdir creates the
\* directory when it is missing under an existing parent and succeeds when
\* the directory exists: it raises only FileNotFoundError for a missing
\* parent, FileExistsError for a path taken by a file, or the error of the
\* operating system.
C5_CreatesDirUnderExistingParent ==
    \A r \in Runs :
        /\ (pc[r] \notin {"idle", "mkdir"} /\ fault[r].op # "mkdir") => dir = "dir"
        /\ wrote[r] # <<>> => dir = "dir"
        /\ made[r] => dir = "dir"
        /\ fault[r].op = "mkdir" =>
              \/ fault[r].err = "FileNotFoundError" /\ ~parent
              \/ fault[r].err = "FileExistsError" /\ dir = "file"
              \/ fault[r].err = "PermissionError"

\* A run has created the missing directory and is about to open its first
\* file.
C5_Witness ==
    \E r \in Runs : made[r] /\ pc[r] = "open" /\ wrote[r] = <<>>

\* C6: a filesystem error ends the run with that very error: no later file
\* is opened, nothing is logged, and the files the run had written in full
\* keep their new lines.
C6_ErrorPropagates ==
    \A r \in Runs :
        fault[r] # NoFault =>
            /\ pc[r] = "raised"
            /\ error[r] = fault[r].err
            /\ log[r] = <<>>
            /\ wrote[r] = SubSeq(FileOrder, 1,
                                 IF fault[r].op = "mkdir" THEN 0
                                 ELSE IF fault[r].op = "open" THEN target[r] - 1
                                 ELSE target[r])
            /\ Latest(r) =>
                  \A i \in 1..WrittenInFull(r) :
                      files[FileOrder[i]] = Keys[i] \o <<61>> \o ValueFor(r, i) \o <<10>>

\* The write of the second file failed after the first file was written.
C6_Witness ==
    \E r \in Runs :
        /\ fault[r].op = "write"
        /\ target[r] = 2
        /\ Latest(r)

\* C7: the log of a completed run is the completion line and the line with
\* the length; neither holds a password of the run, and two runs of the same
\* length log the same, whatever their passwords.
C7_LogIndependentOfPasswords ==
    /\ \A r \in Runs :
          /\ pc[r] # "done" => log[r] = <<>>
          /\ pc[r] = "done" =>
                /\ Len(log[r]) = 2
                /\ log[r][1] = [text |-> "Passwords and env files generated in .docker/",
                                arg |-> <<>>]
                /\ log[r][2].text = "Generated passwords with length: "
                /\ log[r][2].arg = Str(length[r])
                /\ \A i \in 1..Len(log[r]) :
                      /\ ~Contains(log[r][i].arg, admin_password[r])
                      /\ ~Contains(log[r][i].arg, postgres_password[r])
    /\ \A r, q \in Runs :
          (pc[r] = "done" /\ pc[q] = "done" /\ length[r] = length[q]) => log[r] = log[q]

\* Two runs of the same length have completed with different passwords.
C7_Witness ==
    /\ \A r \in Runs : pc[r] = "done"
    /\ length["r1"] = length["r2"]
    /\ admin_password["r1"] # admin_password["r2"]
    /\ postgres_password["r1"] # postgres_password["r2"]

\* C10: a run opens files only after both passwords were returned with all
\* four classes, in the order odoo.env, db-creation.env, db-access.env; a
\* run that is still generating has opened no file; and every file the most
\* recent run has written in full holds a value with all four classes.
C10_GenerateThenPersist ==
    \A r \in Runs :
        /\ IsPrefix(wrote[r], FileOrder)
        /\ pc[r] \in {"idle", "mkdir", "draw_admin", "test_admin", "draw_pg", "test_pg"}
              => wrote[r] = <<>>
        /\ wrote[r] # <<>> =>
              /\ WellFormed(admin_password[r], length[r])
              /\ WellFormed(postgres_password[r], length[r])
        /\ Latest(r) =>
              \A i \in 1..WrittenInFull(r) :
                  WellFormed(ValueOf(files[FileOrder[i]]), length[r])

\* A run has written its first two files and has opened the third.
C10_Witness ==
    \E r \in Runs : pc[r] = "write" /\ target[r] = 3 /\ Latest(r)

\* The line that the run whose write reached the i-th file last wrote.
LastLine(i) ==
    Keys[i] \o <<61>> \o ValueFor(lastWriter[FileOrder[i]], i) \o <<10>>
AllDone == \A r \in Runs : pc[r] = "done"

\* C8 as claimed: when two runs have raced and both have completed, each
\* file holds the line of the run that wrote it last.
C8_LastWriterWins ==
    AllDone => \A i \in 1..Len(FileOrder) : files[FileOrder[i]] = LastLine(i)

\* C8 as amended: nothing keeps two runs apart; when both have completed,
\* each file begins with the line of the run that wrote it last, and holds
\* exactly that line when the two runs used the same length.
C8_LastWriterWinsAtEqualLength ==
    AllDone =>
        \A i \in 1..Len(FileOrder) :
            /\ IsPrefix(LastLine(i), files[FileOrder[i]])
            /\ (\A r, q \in Runs : length[r] = length[q])
                  => files[FileOrder[i]] = LastLine(i)

\* Two runs of the same length have completed and the two database files
\* hold the passwords of different runs.
C8_Witness ==
    /\ AllDone
    /\ length["r1"] = length["r2"]
    /\ lastWriter["db-creation.env"] # lastWriter["db-access.env"]
    /\ ValueOf(files["db-creation.env"]) # ValueOf(files["db-access.env"])

=============================================================================
